---- MODULE Spec2Model ----
(***************************************************************************)
(* Request handling surface of the API: the route handlers of              *)
(* apps/api/routes (health, ai), the documented todos route, the router    *)
(* that dispatches to them, and the data layer / outbound call they await. *)
(* Every request is one invocation of an async handler; it suspends only   *)
(* at its awaits, so each action below is the code between two awaits.     *)
(***************************************************************************)
EXTENDS Naturals, Sequences, FiniteSets

(* ------------------------------ bounds -------------------------------- *)

\* Number of requests the runtime multiplexes in one behaviour.
MaxRequests == 2

\* Largest number of rows in the user table and in the verification table.
MaxRows == 1

\* Longest title string a POST /todos payload carries.
MaxTitleLen == 1

(* ------------------------------ inputs -------------------------------- *)

RequestIds == 1..MaxRequests

\* Rows are kept by their primary key.
RowKeys == {1, 2}

\* Every content a table can have: at most MaxRows rows, distinct keys, in
\* key order.
Tables ==
  {t \in UNION {[1..n -> RowKeys] : n \in 0..MaxRows} :
     \A i \in 1..Len(t) : \A j \in 1..Len(t) : i < j => t[i] < t[j]}

\* Texts the outbound generation call can return.
Texts == {"sunny", "rain"}

Methods == {"GET", "HEAD", "POST"}

\* Request paths as sequences of segments: <<>> is "/", <<"health">> is "/health".
Paths == {<<>>, <<"health">>, <<"ai">>, <<"todos">>, <<"health", "ai">>}

\* JSON values of a payload field. A string is kept by its length, a boolean
\* by 0/1, which is all the schema looks at.
JAbsent == [t |-> "absent", v |-> 0]

JNumber == [t |-> "number", v |-> 0]

JString(n) == [t |-> "string", v |-> n]

JBool(b) == [t |-> "boolean", v |-> IF b THEN 1 ELSE 0]

NoPayload == [title |-> JAbsent, completed |-> JAbsent]

Payloads ==
  [title : {JAbsent, JNumber} \cup {JString(n) : n \in 0..MaxTitleLen},
   completed : {JAbsent, JBool(TRUE), JBool(FALSE), JString(1)}]

\* The requests a client can send. Only POST /todos reads its body, so the
\* other requests are enumerated with an empty one.
Requests ==
  {q \in [method : Methods, path : Paths, session : BOOLEAN, payload : Payloads] :
     (q.method = "POST" /\ q.path = <<"todos">>) \/ q.payload = NoPayload}

NoRequest == [method |-> "none", path |-> <<>>, session |-> FALSE, payload |-> NoPayload]

(* ------------------------------ state --------------------------------- *)

VARIABLES
  store,      \* the persisted tables: [user, verification]
  request,    \* request[r]: the request r carries, NoRequest before it arrives
  pc,         \* pc[r]: where invocation r stands
  ran,        \* ran[r]: the handler bodies that executed for r, in order
  data,       \* data[r]: the health handler's local `data`
  userData,   \* userData[r]: the health handler's local `userData`
  queries,    \* queries[r]: the data-layer operations r issued, with their outcome
  calls,      \* calls[r]: the outbound generateText calls r issued, with their outcome
  held,       \* held[r]: pool connections r holds
  validated,  \* validated[r]: what c.req.valid('json') gave the todos handler
  console,    \* console[r]: what r wrote with console.log
  response    \* response[r]: the response sent for r

vars == <<store, request, pc, ran, data, userData, queries, calls, held,
          validated, console, response>>

\* A local that is not bound yet.
Undefined == <<0>>

(* ----------------------------- responses ------------------------------ *)

EmptyBody == [empty |-> TRUE]

NoResponse == [status |-> 0, type |-> "none", body |-> EmptyBody]

\* c.json(body): a JSON response, status 200 unless one is given.
Json(body, status) == [status |-> status, type |-> "json", body |-> body]

Text(raw, status) == [status |-> status, type |-> "text", body |-> [raw |-> raw]]

(* ------------------------------ router -------------------------------- *)

\* The health routes, registered for POST as well as GET.
healthRoutesAnyMethod ==
  << [method |-> "GET", path |-> <<>>, handler |-> "health"],
     [method |-> "POST", path |-> <<>>, handler |-> "health"] >>

\* The routes each sub-application declares, in registration order.
healthRoutes == << [method |-> "GET", path |-> <<>>, handler |-> "health"] >>

aiRoutes == << [method |-> "GET", path |-> <<>>, handler |-> "ai"] >>

todoRoutes == << [method |-> "POST", path |-> <<>>, handler |-> "todos"] >>

\* The application composition: each sub-application under its path prefix.
Mounts ==
  << [prefix |-> <<"health">>, app |-> healthRoutes],
     [prefix |-> <<"ai">>, app |-> aiRoutes],
     [prefix |-> <<"todos">>, app |-> todoRoutes] >>

\* The routes of one mount, each path merged with the mount's prefix.
Mounted(m) ==
  [i \in 1..Len(m.app) |->
     [method |-> m.app[i].method, path |-> m.prefix \o m.app[i].path,
      handler |-> m.app[i].handler]]

RECURSIVE RoutesFrom(_)
RoutesFrom(k) ==
  IF k > Len(Mounts) THEN <<>> ELSE Mounted(Mounts[k]) \o RoutesFrom(k + 1)

\* The application's route table, in registration order.
Routes == RoutesFrom(1)

\* The framework serves HEAD through the GET routes and strips the body.
RouteMethod(m) == IF m = "HEAD" THEN "GET" ELSE m

\* The indices of the routes a method + path pair matches.
Matched(m, p) ==
  {i \in 1..Len(Routes) : Routes[i].method = RouteMethod(m) /\ Routes[i].path = p}

\* The handler a pair is dispatched to: the first registered match, which
\* answers without calling next, or none.
Dispatch(m, p) ==
  IF Matched(m, p) = {} THEN "none"
  ELSE Routes[CHOOSE i \in Matched(m, p) : \A j \in Matched(m, p) : i <= j].handler

\* The response to a request no route matches.
notFoundHandler == Text("404 Not Found", 404)

\* The response to a request whose handler threw.
errorHandler == Text("Internal Server Error", 500)

\* What is sent for request q when the pipeline produced resp.
Respond(q, resp) ==
  IF q.method = "HEAD" THEN [resp EXCEPT !.body = EmptyBody] ELSE resp

(* ---------------------------- data layer ------------------------------ *)

Select(entity) == [op |-> "select", entity |-> entity]

Delete(entity) == [op |-> "delete", entity |-> entity]

\* The rows operation q returns on store s.
Rows(q, s) == IF q.op = "select" THEN s[q.entity] ELSE <<>>

\* The store after operation q ran on s.
Apply(q, s) == IF q.op = "select" THEN s ELSE [s EXCEPT ![q.entity] = <<>>]

\* The connection pool: a query takes one connection and gives it back when
\* it ends, whatever its outcome.
Acquire(h) == h + 1

ReleaseLeakOnFailure(outcome, h) == IF outcome = "ok" THEN h - 1 ELSE h

Release(outcome, h) == h - 1

Pending(q) == [q |-> q, outcome |-> "pending"]

Ended(q, outcome) == [q |-> q, outcome |-> outcome]

(* --------------------------- health handler --------------------------- *)

\* The i-th query the handler awaits, with the order swapped.
HealthQuerySwapped(i) == IF i = 1 THEN Select("user") ELSE Select("verification")

\* The i-th query the handler awaits, as a delete of the table.
HealthQueryDelete(i) == IF i = 1 THEN Delete("verification") ELSE Delete("user")

\* The i-th query the handler awaits: db.select().from(verification), then
\* db.select().from(user).
HealthQuery(i) == IF i = 1 THEN Select("verification") ELSE Select("user")

\* A handler that answers by what the other invocations are doing.
HealthHandlerReturnBusy(d, u) ==
  IF \E q \in RequestIds : pc[q] \in {"await_verification", "await_generateText"}
  THEN Json([message |-> "API is busy"], 503)
  ELSE Json([message |-> "API is healthy"], 200)

\* A handler that answers by the rows it read.
HealthHandlerReturnByRows(d, u) ==
  IF u = <<>> THEN Json([message |-> "API has no users"], 200)
  ELSE Json([message |-> "API is healthy"], 200)

\* The handler's return, with its locals data and userData in scope.
HealthHandlerReturn(d, u) == Json([message |-> "API is healthy"], 200)

(* ----------------------------- ai handler ----------------------------- *)

\* Arguments of the outbound call that take the prompt from the request.
GenerateTextArgsFromRequest(q) ==
  [model |-> "gpt-4o-mini",
   prompt |-> IF q.session THEN "What's my weather like today?"
              ELSE "What's the weather like today?"]

\* The arguments of the outbound generateText call of request q.
GenerateTextArgs(q) ==
  [model |-> "gpt-4o-mini", prompt |-> "What's the weather like today?"]

\* The handler's return, with the text the call gave in scope.
AiHandlerReturn(t) == Json([text |-> t], 200)

(* ---------------------------- todos handler --------------------------- *)

\* A title rule that forgets the minimum length.
TitleIssuesNoMin(p) == IF p.title.t # "string" THEN {"title"} ELSE {}

\* title: z.string().min(1)
TitleIssues(p) ==
  IF p.title.t # "string" THEN {"title"}
  ELSE IF p.title.v < 1 THEN {"title"} ELSE {}

\* completed: z.boolean().default(false)
CompletedIssues(p) ==
  IF p.completed.t \in {"absent", "boolean"} THEN {} ELSE {"completed"}

\* todoSchema.safeParse(p): every field that violates a rule is listed; a
\* missing completed is replaced by its default.
todoSchema(p) ==
  LET issues == TitleIssues(p) \cup CompletedIssues(p) IN
  [success |-> issues = {},
   issues |-> issues,
   data |-> [title |-> p.title,
             completed |-> IF p.completed.t = "absent" THEN JBool(FALSE)
                           ELSE p.completed]]

\* zValidator('json', todoSchema): a failed parse is answered 400 with the
\* parse result and the handler is not called.
zValidatorReject(result) ==
  Json([success |-> FALSE, issues |-> result.issues], 400)

TodosHandlerReturn(d) == Json([success |-> TRUE], 200)

(* ------------------------------ actions ------------------------------- *)

Init ==
  /\ store \in [user : Tables, verification : Tables]
  /\ request = [r \in RequestIds |-> NoRequest]
  /\ pc = [r \in RequestIds |-> "new"]
  /\ ran = [r \in RequestIds |-> <<>>]
  /\ data = [r \in RequestIds |-> Undefined]
  /\ userData = [r \in RequestIds |-> Undefined]
  /\ queries = [r \in RequestIds |-> <<>>]
  /\ calls = [r \in RequestIds |-> <<>>]
  /\ held = [r \in RequestIds |-> 0]
  /\ validated = [r \in RequestIds |-> NoPayload]
  /\ console = [r \in RequestIds |-> <<>>]
  /\ response = [r \in RequestIds |-> NoResponse]

\* Requests are numbered in the order they arrive.
Arrives(r) == pc[r] = "new" /\ (IF r = 1 THEN TRUE ELSE pc[r - 1] # "new")

\* A request no route matches: the not-found response, no handler runs.
ReceiveUnmatched(r) ==
  /\ Arrives(r)
  /\ \E q \in Requests :
       /\ Dispatch(q.method, q.path) = "none"
       /\ request' = [request EXCEPT ![r] = q]
       /\ response' = [response EXCEPT ![r] = Respond(q, notFoundHandler)]
  /\ pc' = [pc EXCEPT ![r] = "done"]
  /\ UNCHANGED <<store, ran, data, userData, queries, calls, held, validated, console>>

\* A request dispatched to the health handler: the handler starts, issues
\* its first query and suspends at the await.
ReceiveHealth(r) ==
  /\ Arrives(r)
  /\ \E q \in Requests :
       /\ Dispatch(q.method, q.path) = "health"
       /\ request' = [request EXCEPT ![r] = q]
  /\ ran' = [ran EXCEPT ![r] = Append(@, "health")]
  /\ queries' = [queries EXCEPT ![r] = Append(@, Pending(HealthQuery(1)))]
  /\ held' = [held EXCEPT ![r] = Acquire(@)]
  /\ pc' = [pc EXCEPT ![r] = "await_verification"]
  /\ UNCHANGED <<store, data, userData, calls, validated, console, response>>

\* The first query fails and the handler goes on as if it had read no row.
VerificationReadFailSwallowed(r) ==
  /\ pc[r] = "await_verification"
  /\ data' = [data EXCEPT ![r] = <<>>]
  /\ queries' = [queries EXCEPT ![r] =
       <<Ended(@[1].q, "failed"), Pending(HealthQuery(2))>>]
  /\ held' = [held EXCEPT ![r] = Acquire(Release("failed", @))]
  /\ pc' = [pc EXCEPT ![r] = "await_user"]
  /\ UNCHANGED <<store, request, ran, userData, calls, validated, console, response>>

\* The first query resolves: data is bound, the second query is issued and
\* the handler suspends again.
VerificationReadOk(r) ==
  /\ pc[r] = "await_verification"
  /\ data' = [data EXCEPT ![r] = Rows(queries[r][1].q, store)]
  /\ store' = Apply(queries[r][1].q, store)
  /\ queries' = [queries EXCEPT ![r] =
       <<Ended(@[1].q, "ok"), Pending(HealthQuery(2))>>]
  /\ held' = [held EXCEPT ![r] = Acquire(Release("ok", @))]
  /\ pc' = [pc EXCEPT ![r] = "await_user"]
  /\ UNCHANGED <<request, ran, userData, calls, validated, console, response>>

\* The first query rejects: the await throws, nothing catches it in the
\* handler, and the request is answered by the error handler.
VerificationReadFail(r) ==
  /\ pc[r] = "await_verification"
  /\ queries' = [queries EXCEPT ![r] = <<Ended(@[1].q, "failed")>>]
  /\ held' = [held EXCEPT ![r] = Release("failed", @)]
  /\ response' = [response EXCEPT ![r] = Respond(request[r], errorHandler)]
  /\ pc' = [pc EXCEPT ![r] = "done"]
  /\ UNCHANGED <<store, request, ran, data, userData, calls, validated, console>>

\* The second query resolves: userData is bound, both locals are logged and
\* the handler returns.
UserReadOk(r) ==
  /\ pc[r] = "await_user"
  /\ LET rows == Rows(queries[r][2].q, store) IN
       /\ userData' = [userData EXCEPT ![r] = rows]
       /\ console' = [console EXCEPT ![r] = <<data[r], rows>>]
       /\ response' = [response EXCEPT ![r] =
            Respond(request[r], HealthHandlerReturn(data[r], rows))]
  /\ store' = Apply(queries[r][2].q, store)
  /\ queries' = [queries EXCEPT ![r] = <<@[1], Ended(@[2].q, "ok")>>]
  /\ held' = [held EXCEPT ![r] = Release("ok", @)]
  /\ pc' = [pc EXCEPT ![r] = "done"]
  /\ UNCHANGED <<request, ran, data, calls, validated>>

\* The second query rejects: the await throws out of the handler.
UserReadFail(r) ==
  /\ pc[r] = "await_user"
  /\ queries' = [queries EXCEPT ![r] = <<@[1], Ended(@[2].q, "failed")>>]
  /\ held' = [held EXCEPT ![r] = Release("failed", @)]
  /\ response' = [response EXCEPT ![r] = Respond(request[r], errorHandler)]
  /\ pc' = [pc EXCEPT ![r] = "done"]
  /\ UNCHANGED <<store, request, ran, data, userData, calls, validated, console>>

\* A request dispatched to the ai handler: the handler starts, issues the
\* outbound call and suspends at the await.
ReceiveAi(r) ==
  /\ Arrives(r)
  /\ \E q \in Requests :
       /\ Dispatch(q.method, q.path) = "ai"
       /\ request' = [request EXCEPT ![r] = q]
       /\ calls' = [calls EXCEPT ![r] =
            Append(@, [args |-> GenerateTextArgs(q), outcome |-> "pending", text |-> ""])]
  /\ ran' = [ran EXCEPT ![r] = Append(@, "ai")]
  /\ pc' = [pc EXCEPT ![r] = "await_generateText"]
  /\ UNCHANGED <<store, data, userData, queries, held, validated, console, response>>

\* The outbound call resolves with a text: the handler returns it.
GenerateTextOk(r) ==
  /\ pc[r] = "await_generateText"
  /\ \E t \in Texts :
       /\ calls' = [calls EXCEPT ![r] = <<[@[1] EXCEPT !.outcome = "ok", !.text = t]>>]
       /\ response' = [response EXCEPT ![r] = Respond(request[r], AiHandlerReturn(t))]
  /\ pc' = [pc EXCEPT ![r] = "done"]
  /\ UNCHANGED <<store, request, ran, data, userData, queries, held, validated, console>>

\* The outbound call rejects: the await throws out of the handler.
GenerateTextFail(r) ==
  /\ pc[r] = "await_generateText"
  /\ calls' = [calls EXCEPT ![r] = <<[@[1] EXCEPT !.outcome = "failed"]>>]
  /\ response' = [response EXCEPT ![r] = Respond(request[r], errorHandler)]
  /\ pc' = [pc EXCEPT ![r] = "done"]
  /\ UNCHANGED <<store, request, ran, data, userData, queries, held, validated, console>>

\* A request dispatched to the todos route whose payload fails the schema:
\* the validator answers and the handler body does not run.
ReceiveTodosInvalid(r) ==
  /\ Arrives(r)
  /\ \E q \in Requests :
       /\ Dispatch(q.method, q.path) = "todos"
       /\ ~todoSchema(q.payload).success
       /\ request' = [request EXCEPT ![r] = q]
       /\ response' = [response EXCEPT ![r] =
            Respond(q, zValidatorReject(todoSchema(q.payload)))]
  /\ pc' = [pc EXCEPT ![r] = "done"]
  /\ UNCHANGED <<store, ran, data, userData, queries, calls, held, validated, console>>

\* A request dispatched to the todos route whose payload passes the schema:
\* the handler body runs with the parsed data and returns.
ReceiveTodosValid(r) ==
  /\ Arrives(r)
  /\ \E q \in Requests :
       /\ Dispatch(q.method, q.path) = "todos"
       /\ todoSchema(q.payload).success
       /\ request' = [request EXCEPT ![r] = q]
       /\ validated' = [validated EXCEPT ![r] = todoSchema(q.payload).data]
       /\ response' = [response EXCEPT ![r] =
            Respond(q, TodosHandlerReturn(todoSchema(q.payload).data))]
  /\ ran' = [ran EXCEPT ![r] = Append(@, "todos")]
  /\ pc' = [pc EXCEPT ![r] = "done"]
  /\ UNCHANGED <<store, data, userData, queries, calls, held, console>>

\* The health and ai handlers, multiplexed by the runtime.
Next ==
  \E r \in RequestIds :
    \/ ReceiveHealth(r)
    \/ VerificationReadOk(r)
    \/ VerificationReadFail(r)
    \/ UserReadOk(r)
    \/ UserReadFail(r)
    \/ ReceiveAi(r)
    \/ GenerateTextOk(r)
    \/ GenerateTextFail(r)

Spec == Init /\ [][Next]_vars

\* The router and the validation pipeline: every request up to the first
\* await of the handler it is dispatched to. Dispatch and validation read no
\* table, so the tables start empty here.
InitRouter == Init /\ store = [user |-> <<>>, verification |-> <<>>]

NextRouter ==
  \E r \in RequestIds :
    \/ ReceiveUnmatched(r)
    \/ ReceiveHealth(r)
    \/ ReceiveAi(r)
    \/ ReceiveTodosInvalid(r)
    \/ ReceiveTodosValid(r)

SpecRouter == InitRouter /\ [][NextRouter]_vars

(* ------------------------------ claims -------------------------------- *)

Arrived(r) == request[r] # NoRequest

IsRequest(r, m, p) == request[r].method = m /\ request[r].path = p

\* Some read of r was answered with a failure.
ReadFailed(r) == \E i \in 1..Len(queries[r]) : queries[r][i].outcome = "failed"

\* r issued both reads and both succeeded.
BothReadsOk(r) ==
  /\ Len(queries[r]) = 2
  /\ queries[r][1].outcome = "ok"
  /\ queries[r][2].outcome = "ok"

Healthy == [status |-> 200, type |-> "json", body |-> [message |-> "API is healthy"]]

\* C1: a GET /health request whose two store reads both succeeded is
\* answered 200 with the body {message: 'API is healthy'}, whatever the user
\* and verification tables hold (every table content is an initial state).
C1_HealthyWhateverTheRows ==
  \A r \in RequestIds :
    (IsRequest(r, "GET", <<"health">>) /\ pc[r] = "done" /\ BothReadsOk(r))
      => response[r] = Healthy

C1_Witness ==
  \E r \in RequestIds :
    /\ IsRequest(r, "GET", <<"health">>) /\ pc[r] = "done" /\ BothReadsOk(r)
    /\ store.user # <<>> /\ store.verification = <<>>
    /\ response[r].status = 200

\* C2: a request without a valid session to a handler that queries the user
\* or verification table is answered Unauthenticated (401) before the handler
\* runs, and issues no data-layer query.
C2_UnauthenticatedNeverReachesData ==
  \A r \in RequestIds :
    (Arrived(r) /\ ~request[r].session
       /\ request[r].method = "GET" /\ request[r].path = <<"health">>)
      => /\ queries[r] = <<>>
         /\ ran[r] = <<>>
         /\ pc[r] = "done"
         /\ response[r].status = 401

\* C3: a GET /health request one of whose reads failed is over, answered
\* with a 5xx response whose body is the fixed generic text and nothing
\* else (no row, no query, no stack), and never with the 200 healthy body.
C3_ReadFailureIsServerError ==
  \A r \in RequestIds :
    (IsRequest(r, "GET", <<"health">>) /\ ReadFailed(r))
      => /\ pc[r] = "done"
         /\ response[r].status >= 500 /\ response[r].status <= 599
         /\ response[r].body = [raw |-> "Internal Server Error"]
         /\ response[r] # Healthy

C3_Witness ==
  \E r \in RequestIds :
    /\ IsRequest(r, "GET", <<"health">>)
    /\ Len(queries[r]) = 2 /\ queries[r][2].outcome = "failed"
    /\ store.user # <<>>
    /\ response[r].status = 500

\* The title of payload p breaks the schema: missing, not a string, or of
\* length 0.
TitleViolates(p) == p.title.t = "absent" \/ p.title.t # "string" \/ p.title.v = 0

SatisfiesTodoSchema(p) ==
  /\ p.title.t = "string" /\ p.title.v >= 1
  /\ p.completed.t \in {"absent", "boolean"}

\* C4: on POST /todos validation runs before the handler body: a payload
\* whose title breaks the schema ends in a validation failure (400) that
\* lists title, and the handler body does not run; the handler body runs
\* only with a payload that satisfies the schema.
C4_ValidationBeforeHandler ==
  \A r \in RequestIds :
    (Arrived(r) /\ IsRequest(r, "POST", <<"todos">>))
      => /\ TitleViolates(request[r].payload)
              => /\ response[r].status = 400
                 /\ "title" \in response[r].body.issues
                 /\ ran[r] = <<>>
         /\ ran[r] # <<>> => SatisfiesTodoSchema(request[r].payload)
         /\ SatisfiesTodoSchema(request[r].payload) => ran[r] = <<"todos">>

C4_Witness ==
  \E r \in RequestIds :
    /\ IsRequest(r, "POST", <<"todos">>)
    /\ request[r].payload.title = JString(0)
    /\ request[r].payload.completed = JAbsent
    /\ response[r].status = 400

\* The method + path pairs the routes declare, with their handler.
Declared ==
  {<<"GET", <<"health">>, "health">>, <<"GET", <<"ai">>, "ai">>,
   <<"POST", <<"todos">>, "todos">>}

\* The pairs the framework serves through a declared GET route.
ServedAsGet == {<<"HEAD", <<"health">>, "health">>, <<"HEAD", <<"ai">>, "ai">>}

\* Every request ran at most one handler; a request whose pair is not in
\* table ended 404 with no handler run; a handler that ran is the one the
\* table gives the pair; no pair matches two routes.
DispatchFollows(table) ==
  /\ \A r \in RequestIds :
       Arrived(r) =>
         /\ Len(ran[r]) <= 1
         /\ (\A t \in table : <<request[r].method, request[r].path>> # <<t[1], t[2]>>)
              => /\ ran[r] = <<>>
                 /\ pc[r] = "done"
                 /\ response[r].status = 404
         /\ ran[r] # <<>>
              => <<request[r].method, request[r].path, ran[r][1]>> \in table
         /\ (\E t \in table : <<request[r].method, request[r].path>> = <<t[1], t[2]>>)
              => response[r].status # 404
  /\ \A m \in Methods : \A p \in Paths : Cardinality(Matched(m, p)) <= 1

\* C5 (as stated): dispatch is deterministic, and every pair no route
\* declares (any method other than GET on the health or ai route) ends
\* NotFound with no handler run; no handler is shadowed.
C5_UndeclaredIsNotFound == DispatchFollows(Declared)

\* C5 (amended): the same, except that a HEAD request on a path with a GET
\* route is served by that route's handler and answered without a body.
C5_UndeclaredButHeadIsNotFound ==
  /\ DispatchFollows(Declared \cup ServedAsGet)
  /\ \A r \in RequestIds :
       (Arrived(r) /\ request[r].method = "HEAD") => response[r].body = EmptyBody

C5_Witness ==
  \E r, o \in RequestIds :
    /\ IsRequest(r, "POST", <<"health">>) /\ response[r].status = 404 /\ ran[r] = <<>>
    /\ IsRequest(o, "HEAD", <<"ai">>) /\ ran[o] = <<"ai">>

\* The response request q gets when it runs with no other request in the
\* process, given the outcomes qs of its own reads and cs of its own call.
AloneResponse(q, qs, cs) ==
  LET sent(resp) == IF q.method = "HEAD" THEN [resp EXCEPT !.body = EmptyBody] ELSE resp
  IN IF q.path = <<"health">>
     THEN IF \E i \in 1..Len(qs) : qs[i].outcome = "failed"
          THEN sent([status |-> 500, type |-> "text",
                     body |-> [raw |-> "Internal Server Error"]])
          ELSE sent(Healthy)
     ELSE IF cs[1].outcome = "failed"
          THEN sent([status |-> 500, type |-> "text",
                     body |-> [raw |-> "Internal Server Error"]])
          ELSE sent([status |-> 200, type |-> "json", body |-> [text |-> cs[1].text]])

\* C6: under every interleaving of health and ai requests, the response of
\* a finished request is the one it gets when run alone with the same
\* outcomes of its own awaits, and what it bound and logged are the rows of
\* its own reads; an invocation still running has produced no response.
C6_ResponseAsIfAlone ==
  \A r \in RequestIds :
    /\ pc[r] = "done" => response[r] = AloneResponse(request[r], queries[r], calls[r])
    /\ pc[r] # "done" => response[r] = NoResponse
    /\ (pc[r] = "done" /\ BothReadsOk(r))
         => console[r] = <<store.verification, store.user>>

\* An invocation that arrived later has finished while an earlier one is
\* still suspended at its second await.
C6_Witness ==
  \E r, o \in RequestIds :
    /\ o < r
    /\ pc[o] = "await_user"
    /\ pc[r] = "done" /\ request[r].path = <<"health">> /\ BothReadsOk(r)
    /\ response[r] = Healthy

\* C7: a finished request holds no pool connection, on every exit path
\* (success, failure of the first read, failure of the second read), so with
\* no request in flight no connection is held.
C7_ConnectionsReleased ==
  \A r \in RequestIds : pc[r] \in {"new", "done"} => held[r] = 0

C7_Witness ==
  \E r, o \in RequestIds :
    /\ pc[r] = "done" /\ Len(queries[r]) = 1 /\ queries[r][1].outcome = "failed"
    /\ pc[o] = "done" /\ Len(queries[o]) = 2 /\ queries[o][2].outcome = "failed"
    /\ \A x \in RequestIds : pc[x] = "done" /\ held[x] = 0

\* C8: a GET /ai request issues exactly one outbound generation call, with
\* the fixed model and prompt; when the call succeeded the response is 200
\* with the JSON body {text} of the text returned; when it failed the
\* response is not a 200.
C8_OneFixedCallTextReturned ==
  \A r \in RequestIds :
    (Arrived(r) /\ IsRequest(r, "GET", <<"ai">>))
      => /\ Len(calls[r]) = 1
         /\ calls[r][1].args =
              [model |-> "gpt-4o-mini", prompt |-> "What's the weather like today?"]
         /\ calls[r][1].outcome = "ok"
              => response[r] =
                   [status |-> 200, type |-> "json", body |-> [text |-> calls[r][1].text]]
         /\ calls[r][1].outcome = "failed" => (pc[r] = "done" /\ response[r].status # 200)
         /\ calls[r][1].outcome = "pending" => response[r] = NoResponse

C8_Witness ==
  \E r \in RequestIds :
    /\ IsRequest(r, "GET", <<"ai">>) /\ request[r].session
    /\ calls[r][1].outcome = "ok" /\ calls[r][1].text = "rain"
    /\ response[r].status = 200

\* C9: the health and ai handlers leave the store as it is: no step changes
\* a table, every data-layer operation is a select issued by a health
\* request, and an ai request issues none.
C9_StoreReadOnly ==
  /\ [][store' = store]_vars
  /\ [](\A r \in RequestIds :
         /\ \A i \in 1..Len(queries[r]) :
              queries[r][i].q.op = "select" /\ request[r].path = <<"health">>
         /\ request[r].path = <<"ai">> => queries[r] = <<>>)

C9_Witness ==
  \E r, o \in RequestIds :
    /\ request[r].path = <<"health">> /\ pc[r] = "done" /\ BothReadsOk(r)
    /\ request[o].path = <<"ai">> /\ pc[o] = "done"
    /\ store.user # <<>> /\ store.verification # <<>>

\* C10: within one health request the user read is issued only once the
\* verification read has succeeded, the response is produced only once no
\* read is pending, a 200 only after both reads succeeded, and after a
\* failed verification read no user read is issued.
C10_ReadsInOrder ==
  \A r \in RequestIds :
    /\ \A i \in 1..Len(queries[r]) :
         queries[r][i].q.entity = "user"
           => (i = 2 /\ queries[r][1] = [q |-> [op |-> "select", entity |-> "verification"],
                                          outcome |-> "ok"])
    /\ (Len(queries[r]) >= 1 /\ queries[r][1].outcome = "failed") => Len(queries[r]) = 1
    /\ (request[r].path = <<"health">> /\ response[r] # NoResponse)
         => \A i \in 1..Len(queries[r]) : queries[r][i].outcome # "pending"
    /\ (request[r].path = <<"health">> /\ response[r].status = 200) => BothReadsOk(r)
    /\ Len(queries[r]) >= 1 => queries[r][1].q.entity = "verification"

C10_Witness ==
  \E r \in RequestIds :
    /\ request[r].path = <<"health">> /\ pc[r] = "done"
    /\ Len(queries[r]) = 1 /\ queries[r][1].outcome = "failed"
    /\ response[r].status = 500

====
